---- MODULE Spec2Model ----
(***************************************************************************)
(* Voting service of the polling application: submitVote, hasUserVoted,    *)
(* getPollResults, subscribeToResults (lib/votes) and createPoll,          *)
(* deletePoll (lib/polls), running as unsynchronised async calls against   *)
(* the polls and votes tables of the relational store.                     *)
(*                                                                         *)
(* Every `await` on the store is one atomic step of the store; a call is   *)
(* a sequence of such steps and calls interleave freely between them.      *)
(* JavaScript arrays are modelled as sequences: index i is position i+1.   *)
(***************************************************************************)
EXTENDS Integers, Sequences, FiniteSets, Bags, TLC

\* ------------------------------------------------------------------ bounds
MaxTime == 2
MaxCalls == 2
MaxFaults == 1

\* ------------------------------------------------------------ input domains
Users == {"A", "B"}
PollIds == {1, 2}
OptionIndexes == {-1, 0, 1, 2}
CallIds == {1, 2, 3}
GetIds == {1}
SubIds == {1, 2}
DelIds == {1}

VARIABLES now, polls, votes, calls, gets, dels, subs, handlers, faults

vars == <<now, polls, votes, calls, gets, dels, subs, handlers, faults>>

\* ------------------------------------------------------------------ tables
\* A row of polls: the columns the voting service reads.  expires_at is
\* nullable: <<>> is null, <<t>> is the timestamp t.  options is the array
\* of option labels.
NullTime == <<>>

PollRow(owner, options, expires) ==
  [created_by |-> owner, options |-> options, expires_at |-> expires]

\* A row of votes.  The id and created_at columns are never read by the
\* service; the table is a bag of rows, so that two equal rows are two rows.
VoteRow(pollId, userId, optionIndex) ==
  [poll_id |-> pollId, user_id |-> userId, option_index |-> optionIndex]

RECURSIVE BagSize(_, _)
BagSize(B, S) ==
  IF S = {} THEN 0
  ELSE LET r == CHOOSE x \in S : TRUE
       IN  CopiesIn(r, B) + BagSize(B, S \ {r})

\* .eq('poll_id', pollId): the rows of a vote bag that reference pollId
VotesOfPoll(B, pollId) ==
  [r \in {x \in BagToSet(B) : x.poll_id = pollId} |-> B[r]]

\* .eq('poll_id', pollId).eq('user_id', userId)
VotesOfPair(B, pollId, userId) ==
  [r \in {x \in BagToSet(B) : x.poll_id = pollId /\ x.user_id = userId} |-> B[r]]

NumRows(B) == BagSize(B, BagToSet(B))

\* ------------------------------------------------------ store failures
\* A request to the store either is answered or fails with a storage error
\* (network, timeout).  At most MaxFaults requests fail in a behaviour.
MayFail == IF faults < MaxFaults THEN {FALSE, TRUE} ELSE {FALSE}

Charge(storeError) == IF storeError THEN faults + 1 ELSE faults

\* ------------------------------------------------------------ call records
\* A submitVote call: its position, its arguments, the error it returned
\* ("null": none, the vote was inserted), whether a request of it met a
\* storage error, and whether the poll had already expired when it was made
\* and when its insert reached the store.
IdleCall == [pc |-> "idle", pollId |-> 1, userId |-> "A", optionIndex |-> 0,
             error |-> "none", storeError |-> FALSE, expiredAtCall |-> FALSE,
             expiredAtInsert |-> FALSE]

\* Calls are issued in slot order (slots are interchangeable).
MayStart(c) ==
  /\ calls[c].pc = "idle"
  /\ IF c = 1 THEN TRUE ELSE calls[c - 1].pc # "idle"

\* --------------------------------------------------------- hasUserVoted
\* .single() answers with an error unless exactly one row matches; any
\* error, a storage error included, is turned into false.
hasUserVotedAnyUser(pollId, userId, storeError) ==
  LET n == NumRows(VotesOfPoll(votes, pollId))
      error == storeError \/ n # 1
  IN  IF error THEN FALSE ELSE TRUE

hasUserVoted(pollId, userId, storeError) ==
  LET n == NumRows(VotesOfPair(votes, pollId, userId))
      error == storeError \/ n # 1
  IN  IF error THEN FALSE ELSE TRUE

\* ------------------------------------------------------ change notifications
\* The store publishes every change of the votes table; a channel created
\* with event '*' and filter poll_id=eq.<pollId> runs its callback once per
\* published change whose row references pollId.  A running callback is a
\* record of handlers: the subscription, the change, its position and the
\* votes it has read.
Event(type, row) == [type |-> type, row |-> row]

Handler(s, ev) == [sub |-> s, ev |-> ev, pc |-> "readVotes", snap |-> EmptyBag]

ListeningAll(pollId) == {s \in SubIds : subs[s].state = "active"}

Listening(pollId) == {s \in SubIds : subs[s].state = "active" /\ subs[s].pollId = pollId}

Publish(H, ev) ==
  H (+) SetToBag({Handler(s, ev) : s \in Listening(ev.row.poll_id)})

\* ------------------------------------------------------------- votes table
\* INSERT INTO votes: poll_id REFERENCES polls(id), UNIQUE(poll_id, user_id).
InsertOutcomeNoUnique(row) ==
  IF row.poll_id \notin DOMAIN polls THEN "ForeignKeyViolation"
  ELSE "Ok"

InsertOutcomeNoForeignKey(row) ==
  IF NumRows(VotesOfPair(votes, row.poll_id, row.user_id)) > 0
  THEN "UniqueViolation"
  ELSE "Ok"

InsertOutcome(row) ==
  IF row.poll_id \notin DOMAIN polls THEN "ForeignKeyViolation"
  ELSE IF NumRows(VotesOfPair(votes, row.poll_id, row.user_id)) > 0
       THEN "UniqueViolation"
  ELSE "Ok"

\* ---------------------------------------------------------------- submitVote
\* poll.expires_at && new Date(poll.expires_at) < new Date()
IsExpired(poll, time) ==
  poll.expires_at # NullTime /\ poll.expires_at[1] < time

\* const existingVote = await hasUserVoted(pollId, userId);
\* if (existingVote) return { vote: null, error: 'User has already voted ...' }
SubmitVoteCheckDuplicate(c, pollId, userId, optionIndex, storeError) ==
  /\ MayStart(c)
  /\ LET existingVote == hasUserVoted(pollId, userId, storeError)
         call == [IdleCall EXCEPT !.pollId = pollId, !.userId = userId,
                                  !.optionIndex = optionIndex,
                                  !.storeError = storeError,
                                  !.expiredAtCall =
                                     IF pollId \in DOMAIN polls
                                     THEN IsExpired(polls[pollId], now) ELSE FALSE]
     IN  calls' = [calls EXCEPT ![c] =
                     IF existingVote
                     THEN [call EXCEPT !.pc = "done", !.error = "AlreadyVoted"]
                     ELSE [call EXCEPT !.pc = "readPoll"]]
  /\ faults' = Charge(storeError)
  /\ UNCHANGED <<now, polls, votes, gets, dels, subs, handlers>>

\* The checks made on the poll row once it has been read, in the order of
\* the code: existence, expiration, option range.  found is false when the
\* select returned no row (data is null).
PollChecksOffByOne(found, poll, optionIndex, time) ==
  IF ~found THEN "PollNotFound"
  ELSE IF IsExpired(poll, time) THEN "PollExpired"
  ELSE IF optionIndex < 0 \/ optionIndex > Len(poll.options)
       THEN "InvalidOption"
  ELSE "none"

PollChecksAtOrBefore(found, poll, optionIndex, time) ==
  IF ~found THEN "PollNotFound"
  ELSE IF poll.expires_at # NullTime /\ poll.expires_at[1] <= time
       THEN "PollExpired"
  ELSE IF optionIndex < 0 \/ optionIndex >= Len(poll.options)
       THEN "InvalidOption"
  ELSE "none"

PollChecksRangeFirst(found, poll, optionIndex, time) ==
  IF ~found THEN "PollNotFound"
  ELSE IF optionIndex < 0 \/ optionIndex >= Len(poll.options)
       THEN "InvalidOption"
  ELSE IF IsExpired(poll, time) THEN "PollExpired"
  ELSE "none"

PollChecks(found, poll, optionIndex, time) ==
  IF ~found THEN "PollNotFound"
  ELSE IF IsExpired(poll, time) THEN "PollExpired"
  ELSE IF optionIndex < 0 \/ optionIndex >= Len(poll.options)
       THEN "InvalidOption"
  ELSE "none"

\* const { data: poll } = await supabase.from('polls').select(...).single();
\* followed by the three checks.
SubmitVoteReadPoll(c, storeError) ==
  /\ calls[c].pc = "readPoll"
  /\ LET found == ~storeError /\ calls[c].pollId \in DOMAIN polls
         poll == IF found THEN polls[calls[c].pollId]
                 ELSE PollRow("A", <<>>, NullTime)
         error == PollChecks(found, poll, calls[c].optionIndex, now)
         call == [calls[c] EXCEPT !.storeError = @ \/ storeError]
     IN  calls' = [calls EXCEPT ![c] =
                     IF error # "none"
                     THEN [call EXCEPT !.pc = "done", !.error = error]
                     ELSE [call EXCEPT !.pc = "insert"]]
  /\ faults' = Charge(storeError)
  /\ UNCHANGED <<now, polls, votes, gets, dels, subs, handlers>>

\* const { data: vote, error } = await supabase.from('votes').insert(...)
\* return { vote, error };   the store's error is returned as it is.
SubmitVoteInsert(c, storeError) ==
  /\ calls[c].pc = "insert"
  /\ LET row == VoteRow(calls[c].pollId, calls[c].userId, calls[c].optionIndex)
         outcome == IF storeError THEN "StoreError" ELSE InsertOutcome(row)
         call == [calls[c] EXCEPT !.storeError = @ \/ storeError,
                                  !.expiredAtInsert =
                                     IF calls[c].pollId \in DOMAIN polls
                                     THEN IsExpired(polls[calls[c].pollId], now)
                                     ELSE FALSE]
     IN  /\ calls' = [calls EXCEPT ![c] =
                        [call EXCEPT !.pc = "done",
                                     !.error = IF outcome = "Ok" THEN "null" ELSE outcome]]
         /\ votes' = IF outcome = "Ok" THEN votes (+) SetToBag({row}) ELSE votes
         /\ handlers' = IF outcome = "Ok" THEN Publish(handlers, Event("INSERT", row))
                        ELSE handlers
  /\ faults' = Charge(storeError)
  /\ UNCHANGED <<now, polls, gets, dels, subs>>

\* -------------------------------------------------------------- getPollResults
\* results[vote.option_index]++ on a JavaScript array: an index inside the
\* array adds one; an index at or past the end stores NaN there and grows
\* the array, leaving holes in between; a negative index sets a property
\* and leaves the elements alone.  NaN + 1 is NaN.
NaN == -1
Hole == -2

IncrementByTwo(results, index) ==
  IF index < 0 \/ index >= Len(results) THEN results
  ELSE [results EXCEPT ![index + 1] = @ + 2]

Increment(results, index) ==
  IF index < 0 THEN results
  ELSE IF index < Len(results)
       THEN [results EXCEPT ![index + 1] = IF @ < 0 THEN NaN ELSE @ + 1]
  ELSE [k \in 1..(index + 1) |->
          IF k <= Len(results) THEN results[k]
          ELSE IF k <= index THEN Hole ELSE NaN]

RECURSIVE Times(_, _, _)
Times(results, index, k) ==
  IF k = 0 THEN results ELSE Times(Increment(results, index), index, k - 1)

\* votes?.forEach((vote) => { results[vote.option_index]++ })
RECURSIVE ForEachVote(_, _, _)
ForEachVote(results, B, S) ==
  IF S = {} THEN results
  ELSE LET r == CHOOSE x \in S : TRUE
       IN  ForEachVote(Times(results, r.option_index, B[r]), B, S \ {r})

CountVotesOneShort(options, snap) ==
  ForEachVote([k \in 1..(Len(options) - 1) |-> 0], snap, BagToSet(snap))

\* new Array(options.length).fill(0), then the count
CountVotes(options, snap) ==
  ForEachVote([k \in 1..Len(options) |-> 0], snap, BagToSet(snap))

\* The second half of getPollResults, from the poll select on: what it
\* returns given the votes already read.
ResultsForEmptyIsMissing(pollId, snap, storeError) ==
  IF storeError \/ pollId \notin DOMAIN polls \/ snap = EmptyBag
  THEN [results |-> <<>>, error |-> "PollNotFound"]
  ELSE [results |-> CountVotes(polls[pollId].options, snap), error |-> "null"]

ResultsFor(pollId, snap, storeError) ==
  IF storeError \/ pollId \notin DOMAIN polls
  THEN [results |-> <<>>, error |-> "PollNotFound"]
  ELSE [results |-> CountVotes(polls[pollId].options, snap), error |-> "null"]

\* const { data: votes, error } = await ...from('votes')...eq('poll_id', pollId)
\* if (error) return { results: [], error }
GetPollResultsReadVotes(g, pollId, storeError) ==
  /\ gets[g].pc = "idle"
  /\ gets' = [gets EXCEPT ![g] =
       IF storeError
       THEN [@ EXCEPT !.pc = "done", !.pollId = pollId, !.error = "StoreError",
                      !.storeError = TRUE]
       ELSE [@ EXCEPT !.pc = "readPoll", !.pollId = pollId,
                      !.snap = VotesOfPoll(votes, pollId)]]
  /\ faults' = Charge(storeError)
  /\ UNCHANGED <<now, polls, votes, calls, dels, subs, handlers>>

GetPollResultsReadPoll(g, storeError) ==
  /\ gets[g].pc = "readPoll"
  /\ LET r == ResultsFor(gets[g].pollId, gets[g].snap, storeError)
     IN  gets' = [gets EXCEPT ![g] =
                    [@ EXCEPT !.pc = "done", !.results = r.results, !.error = r.error,
                              !.storeError = storeError]]
  /\ faults' = Charge(storeError)
  /\ UNCHANGED <<now, polls, votes, calls, dels, subs, handlers>>

\* ------------------------------------------------------------ subscribeToResults
\* supabase.channel(...).on('postgres_changes', {event: '*', ...}, cb).subscribe()
SubscribeToResults(s, pollId) ==
  /\ subs[s].state = "none"
  /\ subs' = [subs EXCEPT ![s] = [@ EXCEPT !.state = "active", !.pollId = pollId]]
  /\ UNCHANGED <<now, polls, votes, calls, gets, dels, handlers, faults>>

\* subscription.unsubscribe(): the channel is closed; callbacks already
\* running are not touched.  On a closed channel it does nothing.
Unsubscribe(s) ==
  /\ subs[s].state \in {"active", "closed"}
  /\ subs' = [subs EXCEPT ![s].state = "closed"]
  /\ UNCHANGED <<now, polls, votes, calls, gets, dels, handlers, faults>>

\* onUpdate(results): the invocation is recorded in the subscription's log
\* with the change that caused it, whether the channel was closed by then,
\* and whether an earlier invocation had been given the [] of a failed
\* getPollResults.
OnUpdate(h, results) ==
  [subs EXCEPT ![h.sub].log =
     @ (+) SetToBag({[ev |-> h.ev, results |-> results,
                      closed |-> subs[h.sub].state = "closed",
                      afterFailure |-> \E e \in BagToSet(@) : e.results = <<>>]})]

\* async () => { const { results } = await getPollResults(pollId); onUpdate(results) }
\* first half: the votes select of getPollResults
HandlerReadVotes(h, storeError) ==
  /\ BagIn(h, handlers)
  /\ h.pc = "readVotes"
  /\ IF storeError
     THEN /\ handlers' = handlers (-) SetToBag({h})
          /\ subs' = OnUpdate(h, <<>>)
     ELSE /\ handlers' = (handlers (-) SetToBag({h})) (+)
                         SetToBag({[h EXCEPT !.pc = "readPoll",
                                             !.snap = VotesOfPoll(votes, subs[h.sub].pollId)]})
          /\ UNCHANGED subs
  /\ faults' = Charge(storeError)
  /\ UNCHANGED <<now, polls, votes, calls, gets, dels>>

\* second half: the poll select, the count, and onUpdate(results)
HandlerReadPoll(h, storeError) ==
  /\ BagIn(h, handlers)
  /\ h.pc = "readPoll"
  /\ handlers' = handlers (-) SetToBag({h})
  /\ subs' = OnUpdate(h, ResultsFor(subs[h.sub].pollId, h.snap, storeError).results)
  /\ faults' = Charge(storeError)
  /\ UNCHANGED <<now, polls, votes, calls, gets, dels>>

\* ------------------------------------------------------------------- createPoll
createPollAnyLength(id, options, created_by, expires_at) ==
  /\ id \notin DOMAIN polls
  /\ \A d \in DelIds : dels[d].pc = "idle" \/ dels[d].id # id
  /\ polls' = [p \in DOMAIN polls \cup {id} |->
                 IF p = id THEN PollRow(created_by, options, expires_at) ELSE polls[p]]
  /\ UNCHANGED <<now, votes, calls, gets, dels, subs, handlers, faults>>

\* if (options.length < 2) throw ...; insert into polls.  The store gives
\* the row an id that was never used.
createPoll(id, options, created_by, expires_at) ==
  /\ Len(options) >= 2
  /\ id \notin DOMAIN polls
  /\ \A d \in DelIds : dels[d].pc = "idle" \/ dels[d].id # id
  /\ polls' = [p \in DOMAIN polls \cup {id} |->
                 IF p = id THEN PollRow(created_by, options, expires_at) ELSE polls[p]]
  /\ UNCHANGED <<now, votes, calls, gets, dels, subs, handlers, faults>>

\* ------------------------------------------------------------------- deletePoll
\* One DELETE change is published per row removed.
RECURSIVE PublishDeletes(_, _, _)
PublishDeletes(H, B, S) ==
  IF S = {} THEN H
  ELSE LET r == CHOOSE x \in S : TRUE
           one == Publish(H, Event("DELETE", r))
       IN  PublishDeletes(IF B[r] > 1 THEN Publish(one, Event("DELETE", r)) ELSE one,
                          B, S \ {r})

DeleteVotesOf(pollId) ==
  [r \in {x \in BagToSet(votes) : x.poll_id # pollId} |-> votes[r]]

DeletePollCheckOwnerAnyUser(d, id, userId, storeError) ==
  /\ dels[d].pc = "idle"
  /\ LET found == ~storeError /\ id \in DOMAIN polls
     IN  dels' = [dels EXCEPT ![d] =
                    [@ EXCEPT !.pc = IF found THEN "deleteVotes" ELSE "done",
                              !.id = id, !.userId = userId]]
  /\ faults' = Charge(storeError)
  /\ UNCHANGED <<now, polls, votes, calls, gets, subs, handlers>>

\* select created_by; if (!poll || poll.created_by !== userId) return not authorized
DeletePollCheckOwner(d, id, userId, storeError) ==
  /\ dels[d].pc = "idle"
  /\ LET found == ~storeError /\ id \in DOMAIN polls
         allowed == IF found THEN polls[id].created_by = userId ELSE FALSE
     IN  dels' = [dels EXCEPT ![d] =
                    [@ EXCEPT !.pc = IF allowed THEN "deleteVotes" ELSE "done",
                              !.id = id, !.userId = userId]]
  /\ faults' = Charge(storeError)
  /\ UNCHANGED <<now, polls, votes, calls, gets, subs, handlers>>

\* await supabase.from('votes').delete().eq('poll_id', id);  result not looked at
DeletePollDeleteVotes(d, storeError) ==
  /\ dels[d].pc = "deleteVotes"
  /\ dels' = [dels EXCEPT ![d].pc = "deletePoll"]
  /\ IF storeError
     THEN UNCHANGED <<votes, handlers>>
     ELSE LET gone == VotesOfPoll(votes, dels[d].id)
          IN  /\ votes' = DeleteVotesOf(dels[d].id)
              /\ handlers' = PublishDeletes(handlers, gone, BagToSet(gone))
  /\ faults' = Charge(storeError)
  /\ UNCHANGED <<now, polls, calls, gets, subs>>

\* const { error } = await supabase.from('polls').delete().eq('id', id);
\* return { success: !error, error };  votes.poll_id is ON DELETE CASCADE
DeletePollDeletePoll(d, storeError) ==
  /\ dels[d].pc = "deletePoll"
  /\ dels' = [dels EXCEPT ![d] = [@ EXCEPT !.pc = "done", !.success = ~storeError]]
  /\ IF storeError
     THEN UNCHANGED <<polls, votes, handlers>>
     ELSE LET gone == VotesOfPoll(votes, dels[d].id)
          IN  /\ polls' = [p \in DOMAIN polls \ {dels[d].id} |-> polls[p]]
              /\ votes' = DeleteVotesOf(dels[d].id)
              /\ handlers' = PublishDeletes(handlers, gone, BagToSet(gone))
  /\ faults' = Charge(storeError)
  /\ UNCHANGED <<now, calls, gets, subs>>

\* ---------------------------------------------------------------------- time
Tick ==
  /\ now < MaxTime
  /\ now' = now + 1
  /\ UNCHANGED <<polls, votes, calls, gets, dels, subs, handlers, faults>>

\* ------------------------------------------------------------ initial states
IdleGet == [pc |-> "idle", pollId |-> 1, snap |-> EmptyBag, results |-> <<>>,
            error |-> "none", storeError |-> FALSE]

IdleDel == [pc |-> "idle", id |-> 1, userId |-> "A", success |-> FALSE]

NoSub == [state |-> "none", pollId |-> 1, log |-> EmptyBag]

\* Two polls exist: one of user A with two options and no expiration, one
\* of user B with three options that expires at time 1.
TwoPolls ==
  (1 :> PollRow("A", <<"Red", "Blue">>, NullTime)) @@
  (2 :> PollRow("B", <<"x", "y", "z">>, <<1>>))

InitWith(P) ==
  /\ now = 0
  /\ polls = P
  /\ votes = EmptyBag
  /\ calls = [c \in CallIds |-> IdleCall]
  /\ gets = [g \in GetIds |-> IdleGet]
  /\ dels = [d \in DelIds |-> IdleDel]
  /\ subs = [s \in SubIds |-> NoSub]
  /\ handlers = EmptyBag
  /\ faults = 0

\* ------------------------------------------------------------------ operations
\* Each operation: the calls in C, with arguments from the given sets; F is
\* the set of answers of the store (FALSE: it answers, TRUE: it fails).
SubmitVote(C, I, F) ==
  \E c \in C, storeError \in F :
    \/ \E pollId \in PollIds, userId \in Users, optionIndex \in I :
         SubmitVoteCheckDuplicate(c, pollId, userId, optionIndex, storeError)
    \/ SubmitVoteReadPoll(c, storeError)
    \/ SubmitVoteInsert(c, storeError)

GetPollResults(F) ==
  \E g \in GetIds, storeError \in F :
    \/ \E pollId \in PollIds : GetPollResultsReadVotes(g, pollId, storeError)
    \/ GetPollResultsReadPoll(g, storeError)

DeletePoll(F) ==
  \E d \in DelIds, storeError \in F :
    \/ \E id \in PollIds, userId \in Users : DeletePollCheckOwner(d, id, userId, storeError)
    \/ DeletePollDeleteVotes(d, storeError)
    \/ DeletePollDeletePoll(d, storeError)

Subscriptions(F) ==
  \/ \E s \in SubIds, pollId \in PollIds : SubscribeToResults(s, pollId)
  \/ \E s \in SubIds : Unsubscribe(s)
  \/ \E storeError \in F : \E h \in BagToSet(handlers) : HandlerReadVotes(h, storeError)
  \/ \E storeError \in F : \E h \in BagToSet(handlers) : HandlerReadPoll(h, storeError)

Answers == {FALSE}

\* MaxCalls submitVote calls with any option index, on two existing polls,
\* the store answering.
NextVote == Tick \/ SubmitVote(1..MaxCalls, OptionIndexes, Answers)

SpecVote == InitWith(TwoPolls) /\ [][NextVote]_vars

\* Two submitVote calls, a deletePoll call and a getPollResults call.
FewCalls == {1, 2}

NextLife ==
  \/ Tick
  \/ SubmitVote(FewCalls, OptionIndexes, Answers)
  \/ DeletePoll(Answers)
  \/ GetPollResults(Answers)

SpecLife == InitWith(TwoPolls) /\ [][NextLife]_vars

\* Option indexes valid for both polls.
ValidIndexes == {0, 1}

\* Three submitVote calls with a valid option index.
NextThree == Tick \/ SubmitVote(CallIds, ValidIndexes, Answers)

SpecThree == InitWith(TwoPolls) /\ [][NextThree]_vars

\* Two subscriptions and two submitVote calls with a valid option index.
NextSub ==
  \/ SubmitVote(FewCalls, ValidIndexes, Answers)
  \/ Subscriptions(Answers)

SpecSub == InitWith(TwoPolls) /\ [][NextSub]_vars

\* Two subscriptions, whose requests to the store may fail, a submitVote
\* call with a valid option index and a deletePoll call.
OneCall == {1}

NextGone ==
  \/ SubmitVote(OneCall, ValidIndexes, Answers)
  \/ DeletePoll(Answers)
  \/ Subscriptions(MayFail)

SpecGone == InitWith(TwoPolls) /\ [][NextGone]_vars

\* One poll exists, of user A with two options; the other id is that of a
\* poll createPoll may make, of either user, with two or three options (a
\* single option is refused).  Two submitVote calls and a deletePoll call.
OnePoll == (1 :> PollRow("A", <<"Red", "Blue">>, NullTime))

OptionLists == {<<"x">>, <<"x", "y">>, <<"x", "y", "z">>}

CreatePoll ==
  \E id \in PollIds, options \in OptionLists, created_by \in Users :
    createPoll(id, options, created_by, NullTime)

NextCreate ==
  \/ CreatePoll
  \/ SubmitVote(FewCalls, OptionIndexes, Answers)
  \/ DeletePoll(Answers)

SpecCreate == InitWith(OnePoll) /\ [][NextCreate]_vars

\* Two submitVote calls with a valid option index and a deletePoll call,
\* of whose requests to the store at most MaxFaults fail.
NextFault ==
  \/ SubmitVote(FewCalls, ValidIndexes, MayFail)
  \/ DeletePoll(MayFail)

SpecFault == InitWith(TwoPolls) /\ [][NextFault]_vars

\* ===================================================================== claims
Pairs == PollIds \X Users

Done(c) == calls[c].pc = "done"

Succeeded(c) == Done(c) /\ calls[c].error = "null"

For(c, pollId, userId) ==
  calls[c].pc # "idle" /\ calls[c].pollId = pollId /\ calls[c].userId = userId

\* The call got as far as the insert and has returned.
ReachedInsert(c) ==
  Done(c) /\ calls[c].error \notin
    {"AlreadyVoted", "PollNotFound", "PollExpired", "InvalidOption"}

HasRow(pollId, userId) == NumRows(VotesOfPair(votes, pollId, userId)) > 0

\* The poll has an expiration time and it is strictly before the current time.
PastExpiry(pollId) ==
  /\ pollId \in DOMAIN polls
  /\ polls[pollId].expires_at # NullTime
  /\ polls[pollId].expires_at[1] < now

\* The option index of the call is outside [0, n) of the poll it names.
OutOfRange(c) ==
  /\ calls[c].pc # "idle"
  /\ calls[c].pollId \in DOMAIN polls
  /\ \/ calls[c].optionIndex < 0
     \/ calls[c].optionIndex >= Len(polls[calls[c].pollId].options)

\* C1: for every (poll, voter) pair, whatever the interleaving of the
\* submitVote calls, at most one call succeeds and the votes table holds at
\* most one row of the pair; of the calls of a pair that passed all checks
\* and reached the insert (a race), exactly one succeeds.
C1_OneVotePerPair ==
  \A pr \in Pairs :
    LET of == {c \in CallIds : For(c, pr[1], pr[2])}
        won == {c \in of : Succeeded(c)}
        raced == {c \in of : ReachedInsert(c)}
    IN  /\ Cardinality(won) <= 1
        /\ NumRows(VotesOfPair(votes, pr[1], pr[2])) <= 1
        /\ raced # {} => Cardinality(won) = 1

\* Two calls of the same pair both passed the pre-check and both inserted:
\* one succeeded, the other was rejected.
C1_Witness ==
  \E c1, c2 \in CallIds :
    /\ c1 # c2
    /\ calls[c1].pollId = calls[c2].pollId /\ calls[c1].userId = calls[c2].userId
    /\ Succeeded(c1)
    /\ ReachedInsert(c2) /\ ~Succeeded(c2)

\* C2: a call whose insert is rejected because the pair already has a row
\* returns the error of the duplicate pre-check, AlreadyVoted.
C2_RaceLoserIsAlreadyVoted ==
  [][\A c \in CallIds :
       (/\ calls[c].pc = "insert"
        /\ calls'[c].pc = "done"
        /\ HasRow(calls[c].pollId, calls[c].userId))
       => calls'[c].error = "AlreadyVoted"]_vars

\* The loser of a race returned the store's unique-constraint violation.
C2_Witness ==
  \E c \in CallIds : Done(c) /\ calls[c].error = "UniqueViolation"

\* C3: submitVote makes its checks in the order duplicate, existence,
\* expiration, option range and returns the failure of the first that
\* fails: the first step of a call returns AlreadyVoted when the voter has a
\* vote on the poll, whatever the poll and the index, and otherwise goes on
\* to read the poll; the step that reads the poll returns PollNotFound for a
\* missing poll, else PollExpired for an expired one, else InvalidOption for
\* an index out of range, and only otherwise goes on to the insert; no other
\* step changes the votes table.
C3_CheckOrder ==
  [][\A c \in CallIds :
       calls'[c] # calls[c] =>
         LET a == calls'[c]
             n == Len(polls[a.pollId].options)
         IN  /\ calls[c].pc = "idle" =>
                  IF HasRow(a.pollId, a.userId)
                  THEN a.pc = "done" /\ a.error = "AlreadyVoted"
                  ELSE a.pc = "readPoll" /\ a.error = "none"
             /\ calls[c].pc = "readPoll" =>
                  IF a.pollId \notin DOMAIN polls
                  THEN a.pc = "done" /\ a.error = "PollNotFound"
                  ELSE IF PastExpiry(a.pollId)
                  THEN a.pc = "done" /\ a.error = "PollExpired"
                  ELSE IF a.optionIndex < 0 \/ a.optionIndex >= n
                  THEN a.pc = "done" /\ a.error = "InvalidOption"
                  ELSE a.pc = "insert" /\ a.error = "none"
             /\ calls[c].pc # "insert" => votes' = votes]_vars

\* A voter with a vote on a poll that has since expired voted again with an
\* index out of range and got AlreadyVoted.
C3_Witness ==
  \E c \in CallIds :
    /\ Done(c) /\ calls[c].error = "AlreadyVoted"
    /\ calls[c].expiredAtCall /\ OutOfRange(c)

\* C4 as stated: a call with an option index out of range fails with
\* InvalidOption.
C4_AlwaysInvalidOption ==
  \A c \in CallIds : (OutOfRange(c) /\ Done(c)) => calls[c].error = "InvalidOption"

\* C4, amended: a call with an option index out of range never inserts and
\* always fails: with AlreadyVoted when the voter has a vote on the poll,
\* with PollExpired when the poll has expired, with InvalidOption otherwise;
\* no row of the votes table has an index out of range.
C4_OutOfRangeFails ==
  /\ \A c \in CallIds :
       OutOfRange(c) =>
         /\ calls[c].pc \in {"readPoll", "done"}
         /\ Done(c) =>
              \/ calls[c].error = "InvalidOption"
              \/ calls[c].error = "AlreadyVoted" /\ HasRow(calls[c].pollId, calls[c].userId)
              \/ calls[c].error = "PollExpired" /\ PastExpiry(calls[c].pollId)
  /\ \A r \in BagToSet(votes) :
       r.poll_id \in DOMAIN polls =>
         (0 <= r.option_index /\ r.option_index < Len(polls[r.poll_id].options))

\* A call with an index past the end has failed with InvalidOption while
\* another voter's vote on the poll stands.
C4_Witness ==
  \E c \in CallIds :
    /\ OutOfRange(c) /\ Done(c) /\ calls[c].error = "InvalidOption"
    /\ calls[c].optionIndex >= Len(polls[calls[c].pollId].options)
    /\ NumRows(VotesOfPoll(votes, calls[c].pollId)) > 0

\* C5 as stated: a call made when the poll has expired fails with
\* PollExpired.
C5_AlwaysPollExpired ==
  \A c \in CallIds : (calls[c].expiredAtCall /\ Done(c)) => calls[c].error = "PollExpired"

\* C5, amended: a call made when the poll has expired never inserts and
\* fails with PollExpired whatever its option index, unless the voter
\* already has a vote on the poll, when it fails with AlreadyVoted; and
\* PollExpired is returned only for a poll whose expires_at is not null and
\* strictly before the current time.
C5_ExpiredPollRejects ==
  \A c \in CallIds :
    /\ calls[c].expiredAtCall =>
         /\ calls[c].pc \in {"readPoll", "done"}
         /\ Done(c) =>
              \/ calls[c].error = "PollExpired"
              \/ calls[c].error = "AlreadyVoted" /\ HasRow(calls[c].pollId, calls[c].userId)
    /\ (Done(c) /\ calls[c].error = "PollExpired") => PastExpiry(calls[c].pollId)

\* A call with a valid index made after the expiration was rejected with
\* PollExpired, and a call made at the very time of expiration inserted.
C5_Witness ==
  /\ \E c \in CallIds :
       /\ calls[c].expiredAtCall /\ Done(c) /\ calls[c].error = "PollExpired"
       /\ ~OutOfRange(c)
  /\ \E c \in CallIds :
       /\ Succeeded(c) /\ ~calls[c].expiredAtCall
       /\ polls[calls[c].pollId].expires_at # NullTime

RECURSIVE SumSeq(_)
SumSeq(q) == IF q = <<>> THEN 0 ELSE q[1] + SumSeq(Tail(q))

\* The rows of a vote bag with the given option index.
VotesWithIndex(B, i) ==
  [r \in {x \in BagToSet(B) : x.option_index = i} |-> B[r]]

\* C6: the results getPollResults returns for a poll with n options, from
\* the votes it read, are a sequence of length exactly n whose entry i is
\* the number of those votes with option index i; every entry is >= 0 and
\* the entries sum to the number of those votes.
C6_TallyCounts ==
  \A g \in GetIds :
    (gets[g].pc = "done" /\ gets[g].error = "null") =>
      LET n == Len(TwoPolls[gets[g].pollId].options)
          results == gets[g].results
      IN  /\ n >= 2
          /\ Len(results) = n
          /\ \A i \in 0..(n - 1) :
               /\ results[i + 1] = NumRows(VotesWithIndex(gets[g].snap, i))
               /\ results[i + 1] >= 0
          /\ SumSeq(results) = NumRows(gets[g].snap)

\* The tally of the three-option poll was returned with two votes in it.
C6_Witness ==
  \E g \in GetIds :
    /\ gets[g].pc = "done" /\ gets[g].error = "null"
    /\ Len(gets[g].results) = 3
    /\ SumSeq(gets[g].results) = 2

\* The tally of the votes table as it stands: what getPollResults computes
\* from the rows of the poll.
TallyNow(pollId) == CountVotes(polls[pollId].options, VotesOfPoll(votes, pollId))

\* C7: the step in which a submitVote(p, v, i) succeeds adds exactly one to
\* entry i of the tally of p and leaves every other entry and the tally of
\* every other poll as it was; every other step of a submitVote call, a
\* failing one included, leaves every tally as it was.
C7_TallyFrame ==
  [][\A c \in CallIds :
       calls'[c] # calls[c] =>
         \A p \in DOMAIN polls :
           /\ Len(TallyNow(p)') = Len(TallyNow(p))
           /\ \A k \in 1..Len(TallyNow(p)) :
                TallyNow(p)'[k] =
                  TallyNow(p)[k] +
                    (IF /\ calls'[c].pc = "done" /\ calls'[c].error = "null"
                        /\ p = calls'[c].pollId /\ k = calls'[c].optionIndex + 1
                     THEN 1 ELSE 0)]_vars

\* The scenario on the two-option poll: A voted 0, A's vote for 1 failed
\* with AlreadyVoted, B voted 1, and the tally is [1, 1].
C7_Witness ==
  /\ \E c \in CallIds :
       For(c, 1, "A") /\ calls[c].optionIndex = 0 /\ Succeeded(c)
  /\ \E c \in CallIds :
       For(c, 1, "A") /\ calls[c].optionIndex = 1 /\ Done(c)
         /\ calls[c].error = "AlreadyVoted"
  /\ \E c \in CallIds :
       For(c, 1, "B") /\ calls[c].optionIndex = 1 /\ Succeeded(c)
  /\ TallyNow(1) = <<1, 1>>

\* C8: getPollResults returns PollNotFound exactly when the poll does not
\* exist when it is looked up; reading the votes returns no error, and for
\* a poll that exists no error is returned, the results being all zero, one
\* per option, when no vote was read.
C8_PollNotFoundIffMissing ==
  [][\A g \in GetIds :
       gets'[g] # gets[g] =>
         /\ gets[g].pc = "idle" => (gets'[g].pc = "readPoll" /\ gets'[g].error = "none")
         /\ gets[g].pc = "readPoll" =>
              /\ gets'[g].pc = "done"
              /\ IF gets[g].pollId \notin DOMAIN polls
                 THEN gets'[g].error = "PollNotFound"
                 ELSE /\ gets'[g].error = "null"
                      /\ gets[g].snap = EmptyBag =>
                           gets'[g].results =
                             [k \in 1..Len(polls[gets[g].pollId].options) |-> 0]]_vars

\* getPollResults returned PollNotFound for a poll deleted after its votes
\* were read.
C8_Witness ==
  \E g \in GetIds :
    /\ gets[g].pc = "done" /\ gets[g].error = "PollNotFound"
    /\ gets[g].pollId \notin DOMAIN polls
    /\ gets[g].snap # EmptyBag

\* hasUserVoted when the store answers
hasVoted(pollId, userId) == hasUserVoted(pollId, userId, FALSE)

\* A deletePoll of the poll has deleted its votes.
VotesDeleted(pollId) ==
  \E d \in DelIds :
    /\ dels[d].id = pollId
    /\ dels[d].pc = "deletePoll" \/ (dels[d].pc = "done" /\ dels[d].success)

\* Some submitVote of the voter on the poll has succeeded.
HasWon(pollId, userId) ==
  \E c \in CallIds : For(c, pollId, userId) /\ Succeeded(c)

\* C9: hasVoted(p, v) is false as long as no submitVote of v on p has
\* succeeded, true once one has and as long as the poll exists, and false,
\* not an error, for a poll that does not exist.
C9_HasVoted ==
  \A pr \in Pairs :
    /\ ~HasWon(pr[1], pr[2]) => ~hasVoted(pr[1], pr[2])
    /\ (HasWon(pr[1], pr[2]) /\ pr[1] \in DOMAIN polls) => hasVoted(pr[1], pr[2])
    /\ pr[1] \notin DOMAIN polls => ~hasVoted(pr[1], pr[2])

\* C9, as the code has it: hasVoted(p, v) is false as long as no submitVote
\* of v on p has succeeded, true once one has and until a deletePoll of p
\* removes the votes of p, which it does before it removes p; it is false
\* for a poll that does not exist; a step of a submitVote call of another
\* voter or on another poll does not change it.
C9_HasVotedUntilVotesDeleted ==
  /\ [](\A pr \in Pairs :
          /\ ~HasWon(pr[1], pr[2]) => ~hasVoted(pr[1], pr[2])
          /\ (HasWon(pr[1], pr[2]) /\ ~VotesDeleted(pr[1])) => hasVoted(pr[1], pr[2])
          /\ pr[1] \notin DOMAIN polls => ~hasVoted(pr[1], pr[2]))
  /\ [][\A c \in CallIds :
          calls'[c] # calls[c] =>
            \A pr \in Pairs :
              (pr[1] # calls'[c].pollId \/ pr[2] # calls'[c].userId) =>
                (hasVoted(pr[1], pr[2])' = hasVoted(pr[1], pr[2]))]_vars

\* A submitVote of the voter on the poll succeeded, the poll exists, and
\* hasVoted is false: deletePoll has removed the votes and not yet the poll.
C9_Witness ==
  \E pr \in Pairs :
    /\ HasWon(pr[1], pr[2]) /\ pr[1] \in DOMAIN polls
    /\ ~hasVoted(pr[1], pr[2])
    /\ \E d \in DelIds : dels[d].id = pr[1] /\ dels[d].pc = "deletePoll"

\* The insert events of the votes table that can occur, the option indexes
\* of the calls being valid ones.
InsertEvents ==
  {Event("INSERT", VoteRow(p, u, i)) : p \in PollIds, u \in Users, i \in ValidIndexes}

\* The callbacks of subscription s for the change ev: those running and
\* those that have invoked onUpdate.
Running(s, ev) ==
  LET hs == {h \in BagToSet(handlers) : h.sub = s /\ h.ev = ev}
  IN  BagSize(handlers, hs)

Invoked(s, ev) ==
  LET es == {e \in BagToSet(subs[s].log) : e.ev = ev}
  IN  BagSize(subs[s].log, es)

\* The step inserts the row of ev by a submitVote call that succeeds.
Inserts(ev) ==
  \E c \in CallIds :
    /\ calls[c].pc = "insert"
    /\ calls'[c].pc = "done" /\ calls'[c].error = "null"
    /\ ev.row = VoteRow(calls[c].pollId, calls[c].userId, calls[c].optionIndex)

\* results is the tally, one entry per option of the poll, of the rows S.
IsTallyOf(results, pollId, S) ==
  /\ Len(results) = Len(TwoPolls[pollId].options)
  /\ \A k \in 1..Len(results) :
       results[k] = Cardinality({r \in S : r.option_index = k - 1})

\* C10: a successful insert on poll p starts exactly one callback in each
\* subscription that is active on p at that time and none in any other
\* subscription, and no other step starts or drops a callback; a callback
\* invokes onUpdate at most once, and with a tally of the poll read after
\* the insert: one entry per option, counting the inserted vote and votes
\* of the table.
C10_OneCallbackPerInsert ==
  [][/\ \A s \in SubIds, ev \in InsertEvents :
          Running(s, ev)' + Invoked(s, ev)' =
            Running(s, ev) + Invoked(s, ev) +
              (IF /\ Inserts(ev)
                  /\ subs[s].state = "active"
                  /\ subs[s].pollId = ev.row.poll_id
               THEN 1 ELSE 0)
     /\ \A s \in SubIds, ev \in InsertEvents :
          Running(s, ev)' + Invoked(s, ev)' <= 1
     /\ \A s \in SubIds : \A e \in BagToSet(subs'[s].log) :
          /\ e.ev.type = "INSERT"
          /\ e.ev.row.poll_id = subs'[s].pollId
          /\ \E S \in SUBSET BagToSet(VotesOfPoll(votes', subs'[s].pollId)) :
               e.ev.row \in S /\ IsTallyOf(e.results, subs'[s].pollId, S)]_vars

\* The scenario: a subscription on the two-option poll registered after A's
\* vote for 0 and before B's vote for 1 has had exactly one callback, with
\* [1, 1]; the subscription on the other poll has had none.
C10_Witness ==
  /\ subs[1].state = "active" /\ subs[1].pollId = 1
  /\ subs[2].state = "active" /\ subs[2].pollId = 2
  /\ handlers = EmptyBag
  /\ subs[1].log = SetToBag({[ev |-> Event("INSERT", VoteRow(1, "B", 1)),
                              results |-> <<1, 1>>, closed |-> FALSE,
                              afterFailure |-> FALSE]})
  /\ subs[2].log = EmptyBag
  /\ CopiesIn(VoteRow(1, "A", 0), votes) = 1

\* C11: once a subscription is cancelled its onUpdate is not invoked again,
\* a callback that was running when it was cancelled included; cancelling a
\* cancelled subscription changes nothing.
C11_NoCallbackAfterCancel ==
  [][\A s \in SubIds :
       subs[s].state = "closed" =>
         /\ subs'[s].log = subs[s].log
         /\ subs'[s].state = "closed"]_vars

\* onUpdate was invoked on a cancelled subscription, by a callback that was
\* running when the subscription was cancelled.
C11_Witness ==
  \E s \in SubIds :
    /\ subs[s].state = "closed"
    /\ \E e \in BagToSet(subs[s].log) : e.closed

\* C11, the part that holds: a cancelled subscription stays cancelled and
\* no callback is started for it; cancelling it again changes nothing.
C11_NoNewCallbackAfterCancel ==
  [][\A s \in SubIds :
       subs[s].state = "closed" =>
         /\ subs'[s].state = "closed"
         /\ \A h \in BagToSet(handlers') :
              h.sub = s => \E g \in BagToSet(handlers) :
                             g.sub = s /\ g.ev = h.ev]_vars

\* The step is the end of a callback of subscription s whose getPollResults
\* failed: a request of it met a storage error, or the poll was not found.
FailsIn(s) ==
  \E h \in BagToSet(handlers) :
    /\ h.sub = s
    /\ CopiesIn(h, handlers') < CopiesIn(h, handlers)
    /\ \/ faults' > faults
       \/ h.pc = "readPoll" /\ subs[s].pollId \notin DOMAIN polls

\* A recomputation of subscription s has failed: its onUpdate was given [].
HasFailed(s) == \E e \in BagToSet(subs[s].log) : e.results = <<>>

\* C12: when the recomputation of a callback fails, the subscription is
\* terminated and onUpdate is given no tally for that notification; after
\* a failed recomputation onUpdate is not invoked again.
C12_FailureEndsSubscription ==
  [][\A s \in SubIds :
       /\ FailsIn(s) =>
            /\ subs'[s].state = "closed"
            /\ \A e \in BagToSet(subs'[s].log) :
                 CopiesIn(e, subs'[s].log) > CopiesIn(e, subs[s].log) =>
                   Len(e.results) = 0
       /\ HasFailed(s) => subs'[s].log = subs[s].log]_vars

\* The poll of an active subscription was deleted, a recomputation failed
\* and onUpdate was given [], the subscription is still active, and onUpdate
\* was invoked again afterwards.
C12_Witness ==
  \E s \in SubIds :
    /\ subs[s].state = "active"
    /\ subs[s].pollId \notin DOMAIN polls
    /\ \E e \in BagToSet(subs[s].log) : e.results = <<>> /\ e.afterFailure

\* C12, as the code has it: a failed recomputation invokes onUpdate with [],
\* a successful one with one entry per option, and neither changes the
\* state of the subscription.
C12_FailureGivesEmptyResults ==
  [][\A s \in SubIds :
       /\ subs'[s].log # subs[s].log => subs'[s].state = subs[s].state
       /\ \A e \in BagToSet(subs'[s].log) :
            CopiesIn(e, subs'[s].log) > CopiesIn(e, subs[s].log) =>
              IF FailsIn(s) THEN e.results = <<>>
              ELSE Len(e.results) = Len(TwoPolls[subs[s].pollId].options)]_vars

\* The owner of poll p when it exists.
IsOwner(p, userId) == p \in DOMAIN polls /\ polls[p].created_by = userId

\* C13: a poll is removed only by the polls delete of a deletePoll called
\* with the id of its owner; a deletePoll by another user or on a poll that
\* does not exist returns success false at once, changing neither table; and
\* once a deletePoll(p) has succeeded no vote references p.
C13_OnlyOwnerDeletes ==
  /\ [][/\ \A p \in DOMAIN polls :
            p \notin DOMAIN polls' =>
              \E d \in DelIds :
                /\ dels[d].pc = "deletePoll" /\ dels'[d].pc = "done"
                /\ dels[d].id = p /\ IsOwner(p, dels[d].userId)
        /\ \A d \in DelIds :
            (dels[d].pc = "idle" /\ dels'[d].pc # "idle") =>
              IF IsOwner(dels'[d].id, dels'[d].userId)
              THEN dels'[d].pc = "deleteVotes"
              ELSE /\ dels'[d].pc = "done" /\ ~dels'[d].success
                   /\ polls' = polls /\ votes' = votes]_vars
  /\ [](\A d \in DelIds :
          /\ (dels[d].pc = "done" /\ dels[d].success) =>
               /\ dels[d].id \notin DOMAIN polls
               /\ VotesOfPoll(votes, dels[d].id) = EmptyBag
          /\ dels[d].pc \in {"deleteVotes", "deletePoll"} =>
               IsOwner(dels[d].id, dels[d].userId))

\* The owner's deletePoll succeeded on a poll another user had voted on,
\* and a submitVote on it has since found no poll.
C13_Witness ==
  \E d \in DelIds :
    /\ dels[d].pc = "done" /\ dels[d].success
    /\ \E c \in CallIds :
         /\ Succeeded(c) /\ calls[c].pollId = dels[d].id
         /\ calls[c].userId # dels[d].userId
    /\ \E c \in CallIds :
         Done(c) /\ calls[c].pollId = dels[d].id /\ calls[c].error = "PollNotFound"

\* The row a submitVote call inserts.
RowOf(c) == VoteRow(calls[c].pollId, calls[c].userId, calls[c].optionIndex)

\* The step is the insert of a submitVote call that adds the row r.
InsertedBy(r) ==
  \E c \in CallIds :
    calls[c].pc = "insert" /\ calls'[c].pc = "done" /\ RowOf(c) = r

\* C14: no step changes a vote record (every row after a step is a row
\* from before it or the row a submitVote inserts in it), and a vote record
\* that was inserted is missing only when its poll has been deleted or is
\* being deleted by a deletePoll that is about to delete it.
C14_VoteGoesOnlyWithItsPoll ==
  /\ [][\A r \in BagToSet(votes') :
          CopiesIn(r, votes') > CopiesIn(r, votes) =>
            /\ InsertedBy(r)
            /\ CopiesIn(r, votes') = CopiesIn(r, votes) + 1]_vars
  /\ [](\A c \in CallIds :
          (Succeeded(c) /\ ~BagIn(RowOf(c), votes)) =>
            \/ calls[c].pollId \notin DOMAIN polls
            \/ \E d \in DelIds :
                 dels[d].id = calls[c].pollId /\ dels[d].pc = "deletePoll")

\* A vote was inserted, deletePoll deleted the votes of the poll, its polls
\* delete failed and it returned success false: the poll exists and the
\* vote is gone.
C14_Witness ==
  \E c \in CallIds, d \in DelIds :
    /\ Succeeded(c) /\ ~BagIn(RowOf(c), votes)
    /\ calls[c].pollId \in DOMAIN polls
    /\ dels[d].id = calls[c].pollId
    /\ dels[d].pc = "done" /\ ~dels[d].success

\* C14, as the code has it: no step changes a vote record, and a vote
\* record is removed only by a deletePoll of the owner of its poll, in its
\* votes delete or in its polls delete.
C14_OnlyDeletePollRemoves ==
  [][/\ \A r \in BagToSet(votes') :
          CopiesIn(r, votes') > CopiesIn(r, votes) =>
            /\ InsertedBy(r)
            /\ CopiesIn(r, votes') = CopiesIn(r, votes) + 1
     /\ \A r \in BagToSet(votes) :
          CopiesIn(r, votes') < CopiesIn(r, votes) =>
            \E d \in DelIds :
              /\ dels[d].pc \in {"deleteVotes", "deletePoll"}
              /\ dels'[d].pc # dels[d].pc
              /\ dels[d].id = r.poll_id
              /\ IsOwner(r.poll_id, dels[d].userId)]_vars

\* C15: every poll has at least two options and keeps the options it was
\* created with as long as it exists, and the option index i of every vote
\* record satisfies 0 <= i < number of options of the poll it references.
C15_IndexInRange ==
  /\ [](/\ \A p \in DOMAIN polls : Len(polls[p].options) >= 2
        /\ \A r \in BagToSet(votes) :
             r.poll_id \in DOMAIN polls =>
               /\ 0 <= r.option_index
               /\ r.option_index < Len(polls[r.poll_id].options))
  /\ [][\A p \in DOMAIN polls :
          p \in DOMAIN polls' => polls'[p].options = polls[p].options]_vars

\* A poll was created with three options and has a vote for its last
\* option, and a vote with that index for the two-option poll was refused.
C15_Witness ==
  /\ \E r \in BagToSet(votes) :
       /\ r.poll_id \in DOMAIN polls
       /\ r.poll_id \notin DOMAIN OnePoll
       /\ r.option_index = Len(polls[r.poll_id].options) - 1
       /\ r.option_index = 2
  /\ \E c \in CallIds :
       /\ Done(c) /\ calls[c].error = "InvalidOption"
       /\ calls[c].pollId \in DOMAIN OnePoll /\ calls[c].optionIndex = 2

\* C16: a callback runs, and onUpdate is invoked, only for the insert of a
\* vote of the subscription's poll; a delete of votes starts no callback.
C16_OnlyInsertsNotify ==
  /\ \A h \in BagToSet(handlers) :
       h.ev.type = "INSERT" /\ h.ev.row.poll_id = subs[h.sub].pollId
  /\ \A s \in SubIds : \A e \in BagToSet(subs[s].log) :
       e.ev.type = "INSERT" /\ e.ev.row.poll_id = subs[s].pollId

\* onUpdate was invoked for the delete of a vote by deletePoll, with the
\* tally of the poll, now without votes.
C16_Witness ==
  \E s \in SubIds : \E e \in BagToSet(subs[s].log) :
    /\ e.ev.type = "DELETE"
    /\ e.results = <<0, 0>>
    /\ \E d \in DelIds : dels[d].id = subs[s].pollId /\ dels[d].pc = "deletePoll"

\* C16, as the code has it: a callback runs only for a change, insert or
\* delete, of a vote of the subscription's poll.
C16_OnlyVotesOfItsPollNotify ==
  /\ \A h \in BagToSet(handlers) :
       h.ev.type \in {"INSERT", "DELETE"} /\ h.ev.row.poll_id = subs[h.sub].pollId
  /\ \A s \in SubIds : \A e \in BagToSet(subs[s].log) :
       e.ev.type \in {"INSERT", "DELETE"} /\ e.ev.row.poll_id = subs[s].pollId

\* The step is the duplicate pre-check of call c and its query failed with
\* a storage error.
PrecheckFails(c) ==
  calls[c].pc = "idle" /\ calls'[c].pc # "idle" /\ faults' > faults

\* C17: a submitVote whose duplicate pre-check fails with a storage error
\* returns StoreUnavailable at once, without reading the poll or inserting.
C17_PrecheckErrorSurfaces ==
  [][\A c \in CallIds :
       PrecheckFails(c) =>
         calls'[c].pc = "done" /\ calls'[c].error = "StoreUnavailable"]_vars

\* A voter who had voted called submitVote again, the pre-check met a
\* storage error, and the call went on to the insert, which the unique
\* constraint rejected.
C17_Witness ==
  \E c \in CallIds :
    /\ Done(c) /\ calls[c].storeError
    /\ calls[c].error = "UniqueViolation"
    /\ HasRow(calls[c].pollId, calls[c].userId)

\* C17, as the code has it: a submitVote whose duplicate pre-check fails
\* with a storage error goes on to read the poll, as for a voter who has
\* not voted.
C17_PrecheckErrorIsNotVoted ==
  [][\A c \in CallIds :
       PrecheckFails(c) =>
         calls'[c].pc = "readPoll" /\ calls'[c].error = "none"]_vars

\* C18: every vote record references a poll that exists: once a poll is
\* deleted no vote of it is left, and the insert of a submitVote that read
\* the poll before deletePoll removed it is rejected and adds nothing.
C18_NoOrphanVotes ==
  /\ \A r \in BagToSet(votes) : r.poll_id \in DOMAIN polls
  /\ \A c \in CallIds :
       /\ (Done(c) /\ calls[c].pollId \notin DOMAIN polls) =>
            VotesOfPoll(votes, calls[c].pollId) = EmptyBag
       /\ (Done(c) /\ calls[c].error = "ForeignKeyViolation") =>
            calls[c].pollId \notin DOMAIN polls

\* A submitVote passed its checks on a poll, deletePoll then deleted the
\* poll, and the insert was rejected; another vote on the poll, inserted
\* earlier, went with the poll.
C18_Witness ==
  \E c1, c2 \in CallIds :
    /\ calls[c1].pollId = calls[c2].pollId
    /\ calls[c1].pollId \notin DOMAIN polls
    /\ Done(c1) /\ calls[c1].error = "ForeignKeyViolation"
    /\ Succeeded(c2)

\* C19: no vote is inserted for a poll at a time after its expires_at: the
\* insert of a submitVote call does not succeed once the poll has expired.
C19_NoInsertAfterExpiry ==
  [][\A c \in CallIds :
       (calls[c].pc = "insert" /\ calls'[c].pc = "done" /\ PastExpiry(calls[c].pollId))
         => /\ calls'[c].error # "null"
            /\ votes' = votes]_vars

\* A submitVote read the poll at the very time of its expiration, passed
\* the expiration check, and inserted its vote after the poll had expired.
C19_Witness ==
  \E c \in CallIds :
    /\ Succeeded(c) /\ calls[c].expiredAtInsert /\ ~calls[c].expiredAtCall
    /\ BagIn(RowOf(c), votes)

\* C19, as the code has it: a submitVote goes on to its insert only if the
\* poll had not expired when it read the poll, and a call made after the
\* expiration inserts nothing.
C19_NoInsertCheckedAfterExpiry ==
  /\ [][\A c \in CallIds :
          (calls[c].pc = "readPoll" /\ calls'[c].pc = "insert")
            => ~PastExpiry(calls[c].pollId)]_vars
  /\ [](\A c \in CallIds : calls[c].expiredAtCall => ~Succeeded(c))

====
